---- MODULE Spec2Model ----
(***************************************************************************)
(* Model of the llama.cpp inference worker: handler (src/handler.py),      *)
(* JobInput (src/utils.py), LlamaCPPEngine and LlamaCPPOpenAIEngine        *)
(* (src/engine.py).                                                        *)
(*                                                                         *)
(* Every job is one asyncio task running the async generator returned by   *)
(* handler.  The module-level client is the synchronous OpenAI client, so  *)
(* the calls client.models.list(), client.*.create() and the iteration of  *)
(* a stream are plain blocking calls made without await: the task keeps    *)
(* the event loop while it waits for the inference service.  The only      *)
(* places where a task hands a value to the host are its yields.           *)
(***************************************************************************)
EXTENDS Naturals, Sequences, FiniteSets, TLC

VARIABLES job, pc, engine, req, calls, listed, up, raised, out, escaped, loop

vars == <<job, pc, engine, req, calls, listed, up, raised, out, escaped, loop>>

(* ------------------------------ bounds --------------------------------- *)

NumJobs == 2

MaxChunks == 2

Jobs == 1..NumJobs

(* --------------------------- Python values ----------------------------- *)

PyNone == [t |-> "None"]

PyStr(s) == [t |-> "str", v |-> s]

PyBool(b) == [t |-> "bool", v |-> b]

PyList(l) == [t |-> "list", v |-> l]

PyDict(d) == [t |-> "dict", v |-> d]

EmptyDict == [k \in {} |-> PyNone]

\* bool(x) of a Python value
Truthy(x) ==
    CASE x.t = "None" -> FALSE
      [] x.t = "str"  -> x.v # ""
      [] x.t = "bool" -> x.v
      [] x.t = "list" -> x.v # <<>>
      [] x.t = "dict" -> DOMAIN x.v # {}

\* isinstance(x, str)
IsStr(x) == x.t = "str"

\* d.get(k, default) on a dict d (a function from its keys)
DictGet(d, k, default) == IF k \in DOMAIN d THEN d[k] ELSE default

\* the dict that has exactly the entries of d whose value is present
Missing == [t |-> "missing"]

DictOf(d) == [k \in {c \in DOMAIN d : d[c] # Missing} |-> d[k]]

(* ------------------------------ utils.py ------------------------------- *)

\* JobInput.__init__
JobInput(d) ==
    [llm_input    |-> DictGet(d, "messages", DictGet(d, "prompt", PyNone)),
     stream       |-> DictGet(d, "stream", PyBool(FALSE)),
     openai_route |-> DictGet(d, "openai_route", PyNone),
     openai_input |-> DictGet(d, "openai_input", PyNone)]

(* ----------------------------- handler.py ------------------------------ *)

\* engine_class = LlamaCPPOpenAIEngine if job_input.openai_route else LlamaCPPEngine
engine_class(job_input) ==
    IF Truthy(job_input.openai_route) THEN "LlamaCPPOpenAIEngine"
                                      ELSE "LlamaCPPEngine"

(* ------------------------- the inference service ----------------------- *)

RouteModels == "/v1/models"

RouteCompletions == "/v1/completions"

RouteChat == "/v1/chat/completions"

\* messages of the faults the client can raise while talking to the service
Faults == {"Connection error."}

\* str(e) of the IndexError raised by data[0] on an empty model list
IndexErrorMsg == "list index out of range"

\* str(e) of the TypeError raised by create(**None)
TypeErrorMsg == "argument after ** must be a mapping, not NoneType"

\* model ids the service may report, in the order it reports them
ModelLists == {<<>>, <<"llama">>, <<"qwen", "llama">>}

\* texts of the chunk objects a stream may deliver
Chunks == {"a", "b"}

\* the completion object of a non-streaming call
Completion == [id |-> "cmpl", text |-> "ab"]

\* Model.to_dict()
model_to_dict(m) == [id |-> m, object |-> "model"]

\* ChatCompletionChunk.to_dict() / Completion.to_dict() of a chunk object
chunk_to_dict(c) == [id |-> "cmpl", text |-> c]

\* ChatCompletion.to_dict() / Completion.to_dict() of the full response
response_to_dict(r) == [id |-> r.id, text |-> r.text, object |-> "completion"]

\* json.dumps(d, separators=(",", ":")) of a chunk dict
json_dumps(d) == "{\"id\":\"" \o d.id \o "\",\"text\":\"" \o d.text \o "\"}"

(* ------------------------------ engine.py ------------------------------ *)

\* the except clause reporting the exception's type instead of str(e)
ErrorUnitTypeName(msg) == [error |-> "Exception"]

\* the unit yielded by `except Exception as e: yield {"error": str(e)}`
ErrorUnit(msg) == [error |-> msg]

\* the unit yielded for a route that is none of the three
InvalidRouteUnit == [error |-> "invalid route"]

\* the listing reduced to the model that generate would choose
ModelListUnitFirstOnly(data) ==
    [object |-> "list",
     data |-> [i \in 1..(IF data = <<>> THEN 0 ELSE 1) |-> model_to_dict(data[i])]]

\* the unit yielded by _handle_model_request for the listed models
ModelListUnit(data) ==
    [object |-> "list", data |-> [i \in 1..Len(data) |-> model_to_dict(data[i])]]

\* the frame without its terminating blank line
FrameNoTerminator(c) == [str |-> "data: " \o json_dumps(chunk_to_dict(c))]

\* the text frame yielded for one chunk of a stream
Frame(c) == [str |-> "data: " \o json_dumps(chunk_to_dict(c)) \o "\n\n"]

\* the unit yielded after the stream is exhausted
DoneUnit == [str |-> "data: [DONE]"]

\* the stream test with the default of get() turned to True
StreamRequestedDefaultTrue(openai_input) ==
    Truthy(DictGet(openai_input, "stream", PyBool(TRUE)))

\* `not openai_input.get("stream", False)` is false
StreamRequested(openai_input) ==
    Truthy(DictGet(openai_input, "stream", PyBool(FALSE)))

\* the built job with the prompt taken for chat messages and conversely
BuildOpenAIJobSwapped(job_input, model) ==
    IF ~IsStr(job_input.llm_input)
    THEN JobInput([openai_route |-> PyStr(RouteCompletions),
                   openai_input |-> PyDict([model  |-> PyStr(model),
                                            prompt |-> job_input.llm_input,
                                            stream |-> job_input.stream])])
    ELSE JobInput([openai_route |-> PyStr(RouteChat),
                   openai_input |-> PyDict([model    |-> PyStr(model),
                                            messages |-> job_input.llm_input,
                                            stream   |-> job_input.stream])])

\* the JobInput LlamaCPPEngine.generate builds for the OpenAI engine
BuildOpenAIJob(job_input, model) ==
    IF IsStr(job_input.llm_input)
    THEN JobInput([openai_route |-> PyStr(RouteCompletions),
                   openai_input |-> PyDict([model  |-> PyStr(model),
                                            prompt |-> job_input.llm_input,
                                            stream |-> job_input.stream])])
    ELSE JobInput([openai_route |-> PyStr(RouteChat),
                   openai_input |-> PyDict([model    |-> PyStr(model),
                                            messages |-> job_input.llm_input,
                                            stream   |-> job_input.stream])])

\* a yield through one sink shared by all jobs
DeliverShared(o, j, u) == [o EXCEPT ![1] = Append(@, u)]

\* a yield of job j: the unit u goes to the sink of job j
Deliver(o, j, u) == [o EXCEPT ![j] = Append(@, u)]

(* --------------------------- the event loop ---------------------------- *)

\* no task is running
Free == 0

\* the task of job j can take a step: the loop is free or j itself runs
CanStep(j) == loop = Free \/ loop = j

\* the pc values at which a task is blocked in a call to the service
WaitPoints == {"resolve_wait", "models_wait", "create_wait", "chunk_wait"}

WaitingUpstream(j) == pc[j] \in WaitPoints

\* the task of job j is admitted and has not ended
Live(j) == pc[j] \notin {"idle", "done", "raised"}

(* ------------------------------ job inputs ----------------------------- *)

Msgs == <<[role |-> "user", content |-> "hi"]>>

PayloadTrue == PyDict([model |-> PyStr("llama"), prompt |-> PyStr("p"),
                       stream |-> PyBool(TRUE)])

PayloadFalse == PyDict([model |-> PyStr("llama"), prompt |-> PyStr("p"),
                        stream |-> PyBool(FALSE)])

PayloadNoStream == PyDict([model |-> PyStr("llama"), prompt |-> PyStr("p")])

\* every raw input map the single-job specification submits
AllInputs ==
    { DictOf([messages |-> m, prompt |-> p, stream |-> s,
              openai_route |-> r, openai_input |-> i]) :
        m \in {Missing, PyStr("q"), PyList(Msgs)},
        p \in {Missing, PyStr("p")},
        s \in {Missing, PyBool(TRUE), PyBool(FALSE)},
        r \in {Missing, PyStr(""), PyStr(RouteModels), PyStr(RouteCompletions),
               PyStr(RouteChat), PyStr("/v1/embeddings")},
        i \in {Missing, PayloadTrue, PayloadFalse, PayloadNoStream} }

\* the raw input maps the concurrent specification submits
ConcInputs ==
    { DictOf([prompt |-> PyStr("p"), stream |-> PyBool(TRUE)]),
      DictOf([messages |-> PyList(Msgs)]),
      DictOf([openai_route |-> PyStr(RouteModels)]),
      DictOf([openai_route |-> PyStr(RouteChat), openai_input |-> PayloadTrue,
              stream |-> PyBool(FALSE)]),
      DictOf([openai_route |-> PyStr("/v1/embeddings")]) }

(* -------------------------------- state -------------------------------- *)

Init ==
    /\ job     = [j \in Jobs |-> [input |-> EmptyDict]]
    /\ pc      = [j \in Jobs |-> "idle"]
    /\ engine  = [j \in Jobs |-> "none"]
    /\ req     = [j \in Jobs |-> JobInput(EmptyDict)]
    /\ calls   = [j \in Jobs |-> <<>>]
    /\ listed  = [j \in Jobs |-> <<>>]
    /\ up      = [j \in Jobs |-> <<>>]
    /\ raised  = [j \in Jobs |-> <<>>]
    /\ out     = [j \in Jobs |-> <<>>]
    /\ escaped = [j \in Jobs |-> <<>>]
    /\ loop    = Free

\* the host admits a job: runpod creates the task that will run handler(job)
Admit(j, d) ==
    /\ pc[j] = "idle"
    /\ job' = [job EXCEPT ![j] = [input |-> d]]
    /\ pc' = [pc EXCEPT ![j] = "handler"]
    /\ UNCHANGED <<engine, req, calls, listed, up, raised, out, escaped, loop>>

\* handler, up to engine.generate(job_input): parse the input, pick the engine
HandlerStart(j) ==
    /\ pc[j] = "handler"
    /\ CanStep(j)
    /\ LET job_input == JobInput(job[j]["input"])
       IN /\ engine' = [engine EXCEPT ![j] = engine_class(job_input)]
          /\ req' = [req EXCEPT ![j] = job_input]
          /\ pc' = [pc EXCEPT ![j] =
                      IF engine_class(job_input) = "LlamaCPPOpenAIEngine"
                      THEN "oa_generate" ELSE "resolve"]
    /\ loop' = j
    /\ UNCHANGED <<job, calls, listed, up, raised, out, escaped>>

\* LlamaCPPEngine.generate: client.models.list() is issued (blocking)
ResolveCall(j) ==
    /\ pc[j] = "resolve"
    /\ CanStep(j)
    /\ calls' = [calls EXCEPT ![j] = Append(@, [route |-> RouteModels, payload |-> PyNone])]
    /\ pc' = [pc EXCEPT ![j] = "resolve_wait"]
    /\ loop' = j
    /\ UNCHANGED <<job, engine, req, listed, up, raised, out, escaped>>

\* LlamaCPPEngine.generate: the listing raises; nothing catches it
ResolveFault(j) ==
    /\ pc[j] = "resolve_wait"
    /\ CanStep(j)
    /\ \E msg \in Faults :
          /\ raised' = [raised EXCEPT ![j] = Append(@, msg)]
          /\ escaped' = [escaped EXCEPT ![j] = Append(@, msg)]
    /\ pc' = [pc EXCEPT ![j] = "raised"]
    /\ loop' = Free
    /\ UNCHANGED <<job, engine, req, calls, listed, up, out>>

\* LlamaCPPEngine.generate: the listing returns; .data[0].id, then the
\* OpenAI job is built and handed to LlamaCPPOpenAIEngine.generate
ResolveReturn(j) ==
    /\ pc[j] = "resolve_wait"
    /\ CanStep(j)
    /\ \E data \in ModelLists :
          /\ listed' = [listed EXCEPT ![j] = Append(@, data)]
          /\ IF data = <<>>
             THEN /\ raised' = [raised EXCEPT ![j] = Append(@, IndexErrorMsg)]
                  /\ escaped' = [escaped EXCEPT ![j] = Append(@, IndexErrorMsg)]
                  /\ pc' = [pc EXCEPT ![j] = "raised"]
                  /\ loop' = Free
                  /\ UNCHANGED req
             ELSE /\ req' = [req EXCEPT ![j] = BuildOpenAIJob(JobInput(job[j]["input"]), data[1])]
                  /\ pc' = [pc EXCEPT ![j] = "oa_generate"]
                  /\ loop' = j
                  /\ UNCHANGED <<raised, escaped>>
    /\ UNCHANGED <<job, engine, calls, up, out>>

\* LlamaCPPOpenAIEngine.generate: dispatch on job_input.openai_route
OAGenerate(j) ==
    /\ pc[j] = "oa_generate"
    /\ CanStep(j)
    /\ IF req[j].openai_route = PyStr(RouteModels)
       THEN /\ pc' = [pc EXCEPT ![j] = "models_call"]
            /\ loop' = j
            /\ UNCHANGED out
       ELSE IF req[j].openai_route \in {PyStr(RouteChat), PyStr(RouteCompletions)}
       THEN /\ pc' = [pc EXCEPT ![j] = "create_call"]
            /\ loop' = j
            /\ UNCHANGED out
       ELSE /\ out' = Deliver(out, j, InvalidRouteUnit)
            /\ pc' = [pc EXCEPT ![j] = "finishing"]
            /\ \E rel \in BOOLEAN : loop' = IF rel THEN Free ELSE j
    /\ UNCHANGED <<job, engine, req, calls, listed, up, raised, escaped>>

\* _handle_model_request: client.models.list() is issued (blocking)
ModelsCall(j) ==
    /\ pc[j] = "models_call"
    /\ CanStep(j)
    /\ calls' = [calls EXCEPT ![j] = Append(@, [route |-> RouteModels, payload |-> PyNone])]
    /\ pc' = [pc EXCEPT ![j] = "models_wait"]
    /\ loop' = j
    /\ UNCHANGED <<job, engine, req, listed, up, raised, out, escaped>>

\* _handle_model_request: the listing returns or raises; one unit is yielded
ModelsReturn(j) ==
    /\ pc[j] = "models_wait"
    /\ CanStep(j)
    /\ \/ \E data \in ModelLists :
             /\ listed' = [listed EXCEPT ![j] = Append(@, data)]
             /\ out' = Deliver(out, j, ModelListUnit(data))
             /\ UNCHANGED raised
       \/ \E msg \in Faults :
             /\ raised' = [raised EXCEPT ![j] = Append(@, msg)]
             /\ out' = Deliver(out, j, ErrorUnit(msg))
             /\ UNCHANGED listed
    /\ pc' = [pc EXCEPT ![j] = "finishing"]
    /\ \E rel \in BOOLEAN : loop' = IF rel THEN Free ELSE j
    /\ UNCHANGED <<job, engine, req, calls, up, escaped>>

\* _handle_chat_or_completion_request: create(**openai_input) is issued
\* (blocking); **None raises a TypeError inside the try
CreateCall(j) ==
    /\ pc[j] = "create_call"
    /\ CanStep(j)
    /\ IF req[j].openai_input.t # "dict"
       THEN /\ raised' = [raised EXCEPT ![j] = Append(@, TypeErrorMsg)]
            /\ out' = Deliver(out, j, ErrorUnit(TypeErrorMsg))
            /\ pc' = [pc EXCEPT ![j] = "finishing"]
            /\ \E rel \in BOOLEAN : loop' = IF rel THEN Free ELSE j
            /\ UNCHANGED calls
       ELSE /\ calls' = [calls EXCEPT ![j] =
                           Append(@, [route |-> req[j].openai_route.v,
                                      payload |-> req[j].openai_input])]
            /\ pc' = [pc EXCEPT ![j] = "create_wait"]
            /\ loop' = j
            /\ UNCHANGED <<raised, out>>
    /\ UNCHANGED <<job, engine, req, listed, up, escaped>>

\* _handle_chat_or_completion_request: create() returns or raises
CreateReturn(j) ==
    /\ pc[j] = "create_wait"
    /\ CanStep(j)
    /\ \/ \E msg \in Faults :
             /\ raised' = [raised EXCEPT ![j] = Append(@, msg)]
             /\ out' = Deliver(out, j, ErrorUnit(msg))
             /\ pc' = [pc EXCEPT ![j] = "finishing"]
             /\ \E rel \in BOOLEAN : loop' = IF rel THEN Free ELSE j
       \/ /\ ~StreamRequested(req[j].openai_input.v)
          /\ out' = Deliver(out, j, response_to_dict(Completion))
          /\ pc' = [pc EXCEPT ![j] = "finishing"]
          /\ \E rel \in BOOLEAN : loop' = IF rel THEN Free ELSE j
          /\ UNCHANGED raised
       \/ /\ StreamRequested(req[j].openai_input.v)
          /\ pc' = [pc EXCEPT ![j] = "chunk_wait"]
          /\ loop' = j
          /\ UNCHANGED <<raised, out>>
    /\ UNCHANGED <<job, engine, req, calls, listed, up, escaped>>

\* `for chunk in response`: the stream delivers a chunk, ends or raises
NextChunk(j) ==
    /\ pc[j] = "chunk_wait"
    /\ CanStep(j)
    /\ \/ \E c \in Chunks :
             /\ Len(up[j]) < MaxChunks
             /\ up' = [up EXCEPT ![j] = Append(@, c)]
             /\ out' = Deliver(out, j, Frame(c))
             /\ pc' = [pc EXCEPT ![j] = "chunk_next"]
             /\ UNCHANGED raised
       \/ /\ out' = Deliver(out, j, DoneUnit)
          /\ pc' = [pc EXCEPT ![j] = "finishing"]
          /\ UNCHANGED <<up, raised>>
       \/ \E msg \in Faults :
             /\ raised' = [raised EXCEPT ![j] = Append(@, msg)]
             /\ out' = Deliver(out, j, ErrorUnit(msg))
             /\ pc' = [pc EXCEPT ![j] = "finishing"]
             /\ UNCHANGED up
    /\ \E rel \in BOOLEAN : loop' = IF rel THEN Free ELSE j
    /\ UNCHANGED <<job, engine, req, calls, listed, escaped>>

\* the generator is resumed after a frame and asks the stream for the next
\* chunk (blocking)
ChunkCall(j) ==
    /\ pc[j] = "chunk_next"
    /\ CanStep(j)
    /\ pc' = [pc EXCEPT ![j] = "chunk_wait"]
    /\ loop' = j
    /\ UNCHANGED <<job, engine, req, calls, listed, up, raised, out, escaped>>

\* the generator is resumed after its last yield and ends
Finish(j) ==
    /\ pc[j] = "finishing"
    /\ CanStep(j)
    /\ pc' = [pc EXCEPT ![j] = "done"]
    /\ loop' = Free
    /\ UNCHANGED <<job, engine, req, calls, listed, up, raised, out, escaped>>

Step(j) ==
    \/ HandlerStart(j)
    \/ ResolveCall(j)
    \/ ResolveFault(j)
    \/ ResolveReturn(j)
    \/ OAGenerate(j)
    \/ ModelsCall(j)
    \/ ModelsReturn(j)
    \/ CreateCall(j)
    \/ CreateReturn(j)
    \/ NextChunk(j)
    \/ ChunkCall(j)
    \/ Finish(j)

\* one job, every input
Next ==
    \/ \E d \in AllInputs : Admit(1, d)
    \/ Step(1)

Spec == Init /\ [][Next]_vars

\* several jobs admitted in any order, the tasks interleaved by the loop
NextConc ==
    \/ \E j \in Jobs : \E d \in ConcInputs : Admit(j, d)
    \/ \E j \in Jobs : Step(j)

SpecConc == Init /\ [][NextConc]_vars

TypeOK ==
    /\ pc \in [Jobs -> {"idle", "handler", "resolve", "resolve_wait", "raised",
                        "oa_generate", "models_call", "models_wait", "create_call",
                        "create_wait", "chunk_wait", "chunk_next", "finishing", "done"}]
    /\ loop \in {Free} \cup Jobs
    /\ \A j \in Jobs : Len(up[j]) <= MaxChunks

(* ------------------------- vocabulary of the claims -------------------- *)

Input(j) == job[j]["input"]

Ended(j) == pc[j] \in {"finishing", "done"}

Recognized == {PyStr(RouteModels), PyStr(RouteCompletions), PyStr(RouteChat)}

CreateRoutes == {PyStr(RouteCompletions), PyStr(RouteChat)}

\* the request handed to LlamaCPPOpenAIEngine.generate asks for a stream
StreamingRequest(j) ==
    /\ req[j].openai_route \in CreateRoutes
    /\ req[j].openai_input.t = "dict"
    /\ "stream" \in DOMAIN req[j].openai_input.v
    /\ req[j].openai_input.v["stream"] = PyBool(TRUE)

\* the request handed to LlamaCPPOpenAIEngine.generate is single-shot
SingleShotRequest(j) ==
    \/ req[j].openai_route = PyStr(RouteModels)
    \/ /\ req[j].openai_route \in CreateRoutes
       /\ ~StreamingRequest(j)

\* "data: " + compact JSON of the chunk + "\n\n", written out
ExpectedFrame(c) == [str |-> "data: {\"id\":\"cmpl\",\"text\":\"" \o c \o "\"}\n\n"]

ExpectedFrames(j) == [i \in 1..Len(up[j]) |-> ExpectedFrame(up[j][i])]

ExpectedDone == [str |-> "data: [DONE]"]

ExpectedResponse == [id |-> "cmpl", text |-> "ab", object |-> "completion"]

ExpectedModels(data) ==
    [object |-> "list",
     data |-> [i \in 1..Len(data) |-> [id |-> data[i], object |-> "model"]]]

\* the task has entered LlamaCPPOpenAIEngine.generate
Dispatched(j) ==
    pc[j] \in {"oa_generate", "models_call", "models_wait", "create_call",
               "create_wait", "chunk_wait", "chunk_next", "finishing", "done"}

(* --------------------------------- C1 ---------------------------------- *)

\* C1: every upstream fault, at any stage, is caught and reported as exactly
\* one {error: message} unit; no exception escapes the generator.
C1_NoFaultEscapes ==
    \A j \in Jobs :
        /\ escaped[j] = <<>>
        /\ pc[j] # "raised"
        /\ (raised[j] # <<>> /\ ~Live(j)) =>
               /\ out[j] # <<>>
               /\ out[j][Len(out[j])] = [error |-> raised[j][1]]

(* --------------------------------- C2 ---------------------------------- *)

\* C2: a streaming request whose stream delivers N chunks and never fails
\* yields exactly N+1 units: the N frames "data: <compact JSON>\n\n" in
\* upstream order, then "data: [DONE]", and nothing after it.
C2_StreamFramesThenDone ==
    \A j \in Jobs :
        (Ended(j) /\ StreamingRequest(j) /\ raised[j] = <<>>) =>
            out[j] = ExpectedFrames(j) \o <<ExpectedDone>>

C2_Witness ==
    \E j \in Jobs :
        /\ pc[j] = "done" /\ StreamingRequest(j) /\ raised[j] = <<>>
        /\ Len(up[j]) = 2 /\ up[j][1] # up[j][2]
        /\ Len(out[j]) = 3

(* --------------------------------- C3 ---------------------------------- *)

\* C3: a streaming request that fails after k chunks (k = 0 when opening the
\* stream fails) yields exactly k+1 units: the k frames in upstream order,
\* then one {error: message}; "data: [DONE]" never appears.
C3_StreamFramesThenError ==
    \A j \in Jobs :
        (Ended(j) /\ StreamingRequest(j) /\ raised[j] # <<>>) =>
            /\ out[j] = ExpectedFrames(j) \o <<[error |-> raised[j][1]]>>
            /\ \A i \in 1..Len(out[j]) : out[j][i] # ExpectedDone

C3_Witness ==
    \E j \in Jobs :
        /\ pc[j] = "done" /\ StreamingRequest(j) /\ raised[j] # <<>>
        /\ Len(up[j]) = 1
        /\ Len(out[j]) = 2

(* --------------------------------- C4 ---------------------------------- *)

\* C4: a job whose openai_route holds any value other than the three routes,
\* falsy values included, yields exactly one {error: "invalid route"} and
\* makes no upstream call.
C4_InvalidRoute ==
    \A j \in Jobs :
        ("openai_route" \in DOMAIN Input(j) /\ Input(j)["openai_route"] \notin Recognized) =>
            /\ calls[j] = <<>>
            /\ ~Live(j) => out[j] = <<[error |-> "invalid route"]>>
            /\ Ended(j) => out[j] = <<[error |-> "invalid route"]>>

(* --------------------------------- C5 ---------------------------------- *)

\* C5: a job that carries openai_route is dispatched on that route with
\* openai_input passed verbatim; shape-based routing (model resolution by
\* listing, inspection of llm_input) is never performed for it.
C5_ExplicitRouteWins ==
    \A j \in Jobs :
        ("openai_route" \in DOMAIN Input(j) /\ pc[j] \notin {"idle", "handler"}) =>
            /\ engine[j] = "LlamaCPPOpenAIEngine"
            /\ req[j].openai_route = Input(j)["openai_route"]
            /\ req[j].openai_input = DictGet(Input(j), "openai_input", PyNone)
            /\ \A i \in 1..Len(calls[j]) :
                   /\ calls[j][i].route = Input(j)["openai_route"].v
                   /\ calls[j][i].route # RouteModels =>
                          calls[j][i].payload = DictGet(Input(j), "openai_input", PyNone)

(* --------------------------------- C6 ---------------------------------- *)

\* C6: for a job without openai_route, LlamaCPPEngine.generate lists the
\* models anew and builds the request: "/v1/completions" with
\* {model, prompt, stream} for a string llm_input, "/v1/chat/completions"
\* with {model, messages, stream} for a sequence; llm_input is messages when
\* present and prompt otherwise, stream is the job's stream (false when
\* absent), model is the first listed model.
C6_ShapeRouting ==
    \A j \in Jobs :
        ("openai_route" \notin DOMAIN Input(j) /\ Dispatched(j)) =>
            LET d     == Input(j)
                llm   == IF "messages" \in DOMAIN d THEN d["messages"]
                         ELSE IF "prompt" \in DOMAIN d THEN d["prompt"] ELSE PyNone
                st    == IF "stream" \in DOMAIN d THEN d["stream"] ELSE PyBool(FALSE)
                model == PyStr(listed[j][1][1])
            IN /\ calls[j][1] = [route |-> RouteModels, payload |-> PyNone]
               /\ llm.t = "str" =>
                     /\ req[j].openai_route = PyStr("/v1/completions")
                     /\ req[j].openai_input =
                            PyDict([model |-> model, prompt |-> llm, stream |-> st])
               /\ llm.t = "list" =>
                     /\ req[j].openai_route = PyStr("/v1/chat/completions")
                     /\ req[j].openai_input =
                            PyDict([model |-> model, messages |-> llm, stream |-> st])
               /\ Len(calls[j]) >= 2 =>
                     calls[j][2] = [route |-> req[j].openai_route.v,
                                    payload |-> req[j].openai_input]

C6_Witness ==
    \E j \in Jobs :
        /\ "openai_route" \notin DOMAIN Input(j)
        /\ "messages" \notin DOMAIN Input(j)
        /\ "prompt" \in DOMAIN Input(j)
        /\ "stream" \in DOMAIN Input(j) /\ Input(j)["stream"] = PyBool(TRUE)
        /\ Len(calls[j]) = 2
        /\ calls[j][2].route = "/v1/completions"
        /\ listed[j] = << <<"qwen", "llama">> >>
        /\ pc[j] = "done"

(* --------------------------------- C7 ---------------------------------- *)

\* C7: a single-shot request ("/v1/models", or a completion / chat request
\* without stream) yields exactly one unit and ends: the full response (for
\* "/v1/models" the list with one descriptor per upstream model) or one
\* {error: message}, never both.
C7_SingleShotOneUnit ==
    \A j \in Jobs :
        (Dispatched(j) /\ SingleShotRequest(j)) =>
            /\ ~Ended(j) => out[j] = <<>>
            /\ (Ended(j) /\ raised[j] # <<>>) => out[j] = <<[error |-> raised[j][1]]>>
            /\ (Ended(j) /\ raised[j] = <<>>) =>
                   IF req[j].openai_route = PyStr(RouteModels)
                   THEN /\ out[j] = <<ExpectedModels(listed[j][1])>>
                        /\ Len(out[j][1].data) = Len(listed[j][1])
                   ELSE out[j] = <<ExpectedResponse>>

C7_Witness ==
    \E j \in Jobs :
        /\ pc[j] = "done"
        /\ req[j].openai_route = PyStr(RouteModels)
        /\ raised[j] = <<>>
        /\ Len(out[j]) = 1
        /\ Len(out[j][1].data) = 2

(* --------------------------------- C8 ---------------------------------- *)

\* what the sink of job j must hold, from job j's own request and the
\* responses the service gave to job j alone
ExpectedOut(j) ==
    IF ~Dispatched(j) THEN <<>>
    ELSE ExpectedFrames(j) \o
         (IF ~Ended(j) THEN <<>>
          ELSE IF raised[j] # <<>> THEN <<[error |-> raised[j][1]]>>
          ELSE IF req[j].openai_route = PyStr(RouteModels)
               THEN <<ExpectedModels(listed[j][1])>>
          ELSE IF req[j].openai_route \notin CreateRoutes
               THEN <<[error |-> "invalid route"]>>
          ELSE IF StreamingRequest(j) THEN <<ExpectedDone>>
          ELSE <<ExpectedResponse>>)

\* C8: with several jobs interleaved, the sink of each job holds exactly the
\* units of that job, in the order its own upstream call produced them.
C8_PerJobOrder == \A j \in Jobs : out[j] = ExpectedOut(j)

C8_Witness ==
    /\ pc[1] = "chunk_next" /\ pc[2] = "chunk_next"
    /\ Len(up[1]) = 2 /\ Len(up[2]) = 1
    /\ up[1][1] # up[2][1]
    /\ loop = Free

(* --------------------------------- C9 ---------------------------------- *)

\* C9: a task suspends exactly where it waits on the inference service, so
\* while one job waits for an upstream response every other admitted job
\* can still take steps.
C9_SuspendsWhileWaiting ==
    \A j \in Jobs :
        WaitingUpstream(j) =>
            /\ loop # j
            /\ \A k \in Jobs \ {j} : Live(k) => CanStep(k)

(* --------------------------------- C10 --------------------------------- *)

\* C10: for an explicit "/v1/completions" or "/v1/chat/completions" job the
\* output is streamed or single-shot by the stream entry of openai_input
\* alone (absent or falsy: single-shot); the top-level stream field has no
\* effect.
C10_StreamFromPayloadOnly ==
    \A j \in Jobs :
        (/\ "openai_route" \in DOMAIN Input(j)
         /\ Input(j)["openai_route"] \in CreateRoutes
         /\ Ended(j) /\ raised[j] = <<>>) =>
            LET oi == DictGet(Input(j), "openai_input", PyNone)
            IN IF oi.t = "dict" /\ "stream" \in DOMAIN oi.v /\ oi.v["stream"] = PyBool(TRUE)
               THEN out[j] = ExpectedFrames(j) \o <<ExpectedDone>>
               ELSE out[j] = <<ExpectedResponse>>

C10_Witness ==
    \E j \in Jobs :
        /\ "openai_route" \in DOMAIN Input(j)
        /\ Input(j)["openai_route"] = PyStr(RouteChat)
        /\ "stream" \in DOMAIN Input(j) /\ Input(j)["stream"] = PyBool(TRUE)
        /\ "openai_input" \in DOMAIN Input(j)
        /\ "stream" \notin DOMAIN Input(j)["openai_input"].v
        /\ pc[j] = "done"
        /\ out[j] = <<ExpectedResponse>>

====
